---------------------------- MODULE Spec2Model ----------------------------
(***************************************************************************)
(* chrome-profile-router: the routing engine (loadConfig, chooseProfile,   *)
(* openInChrome), the long-running listener (worker goroutine fed by the   *)
(* HandleURL callback over an unbuffered channel) and the single-instance  *)
(* guard (pid file with liveness check, and the older exclusive lock file).*)
(*                                                                         *)
(* Strings that the code inspects character by character (regular          *)
(* expression patterns, URLs, the pid file's bytes) are sequences of       *)
(* one-character strings; strings the code only compares or copies         *)
(* (profile directories, strategy names, log levels) are TLA+ strings.     *)
(***************************************************************************)
EXTENDS Integers, Sequences, FiniteSets, TLC

VARIABLES
    \* ---- routing engine, applied to one configuration and one URL
    rRaw,       \* the configuration file as the loader finds it
    rUrl,       \* the URL to route
    rPc,        \* "load" -> "choose" -> "done", or "failed"
    rLoaded,    \* what loadConfig returned: [err, cfg]
    rProfile,   \* what chooseProfile returned
    rBuild,     \* whose processURL runs: "listener" or "oneshot"
    rUrlStr,    \* openInChrome's parameter urlStr
    rArgs,      \* the arguments openInChrome gives to exec.Command("open", ...)
    \* ---- one process: the listener (pid-file build), the one-shot build
    \* ---- or the command-line build; main, its goroutine, the notifier
    lRaw,       \* the configuration file
    lCfg,       \* main's local `config`
    mainPc,     \* position of main()
    exitCode,   \* the status passed to os.Exit, -1 while running
    workerPc,   \* position of the worker goroutine
    workerUrl,  \* the worker's loop variable `url`
    workerProfile, \* processURL's local `profile`
    notifierPc, \* the Cocoa main thread: "idle" or inside HandleURL
    chanVal,    \* the value the blocked sender offers on urlListener
    handed,     \* URLs passed to HandleURL, in call order
    launchLog,  \* openInChrome invocations, in call order
    inflight,   \* openInChrome invocations that have not returned
    \* ---- several processes competing for the identity resource
    variant,    \* "pid" (pid file) or "lock" (exclusive lock file)
    pc,         \* position of each process's main()
    alive,      \* whether the OS process exists
    idFile,     \* the identity file: whether the path exists, its inode, its bytes
    fd,         \* the inode each process has open for writing
    readData,   \* isRunning's local `pid`, parsed from the bytes read
    staleSeen,  \* the Kill(pid, 0) probe found no such process
    holderSeen, \* a live listener recorded in the file when it was read
    gExit,      \* each process's exit status, -1 while none
    \* ---- what the goroutine has received and how each launch ended
    received,   \* URLs the goroutine has taken from urlListener, in order
    launchResults, \* what each returned openInChrome call returned
    \* ---- the one-shot build's timer
    clock,      \* seconds elapsed since time.After(4 * time.Second)
    \* ---- the command-line build
    cliFlags,   \* the parsed flags: [dryRun, version]
    cliArgs,    \* the URLs to route: flag.Args(), or the line read from stdin
    cliStdin,   \* what standard input holds: [piped, text]
    cliIdx,     \* position of main's loop over the arguments
    firstErr,   \* main's local `firstErr`: TRUE once a launch has failed
    printed     \* the "Routing:" lines written to standard output

routeVars    == <<rRaw, rUrl, rPc, rLoaded, rProfile, rBuild, rUrlStr, rArgs>>
listenerVars == <<lRaw, lCfg, mainPc, exitCode, workerPc, workerUrl,
                  workerProfile, notifierPc, chanVal, handed, launchLog,
                  inflight>>
guardVars    == <<variant, pc, alive, idFile, fd, readData, staleSeen,
                  holderSeen, gExit>>
logVars      == <<received, launchResults>>
shotVars     == <<clock>>
cliVars      == <<cliFlags, cliArgs, cliStdin, cliIdx, firstErr, printed>>
vars         == <<routeVars, listenerVars, guardVars, logVars, shotVars, cliVars>>

-----------------------------------------------------------------------------
(* Bounds of the model *)

MaxRules == 2
MaxUrlLen == 2
MaxDeliveries == 3
NumProcs == 3

-----------------------------------------------------------------------------
(* Small helpers *)

RECURSIVE SeqsUpTo(_, _)
SeqsUpTo(S, n) ==
    IF n = 0 THEN {<<>>}
    ELSE LET shorter == SeqsUpTo(S, n - 1)
         IN  shorter \cup {Append(s, x) : s \in {t \in shorter : Len(t) = n - 1}, x \in S}

Min(S) == CHOOSE x \in S : \A y \in S : x <= y

-----------------------------------------------------------------------------
(* regexp.Compile and Regexp.MatchString, on the fragment of RE2 syntax    *)
(* the model's patterns use: literal characters, "." (any character), a    *)
(* postfix "*" and an opening parenthesis.  A compiled expression is a     *)
(* sequence of atoms [ch, star].                                           *)

NoRegexp == <<>>

RECURSIVE ParseRegexp(_, _, _)
ParseRegexp(pat, i, atoms) ==
    IF i > Len(pat) THEN [ok |-> TRUE, re |-> atoms]
    ELSE LET c == pat[i] IN
         IF c = "(" THEN
            \* no ")" follows in this fragment: "missing closing )"
            [ok |-> FALSE, re |-> NoRegexp]
         ELSE IF c = "*" THEN
            IF atoms = <<>> THEN
               \* "missing argument to repetition operator"
               [ok |-> FALSE, re |-> NoRegexp]
            ELSE IF atoms[Len(atoms)].star THEN
               \* "invalid nested repetition operator"
               [ok |-> FALSE, re |-> NoRegexp]
            ELSE ParseRegexp(pat, i + 1,
                    [atoms EXCEPT ![Len(atoms)].star = TRUE])
         ELSE ParseRegexp(pat, i + 1, Append(atoms, [ch |-> c, star |-> FALSE]))

Compile(pat) == ParseRegexp(pat, 1, <<>>)

AtomAccepts(atom, c) == atom.ch = "." \/ atom.ch = c

\* whether atoms k.. match a prefix of s starting at position j
RECURSIVE MatchHere(_, _, _, _)
MatchHere(re, k, s, j) ==
    IF k > Len(re) THEN TRUE
    ELSE IF re[k].star THEN
            \/ MatchHere(re, k + 1, s, j)
            \/ (j <= Len(s) /\ AtomAccepts(re[k], s[j]) /\ MatchHere(re, k, s, j + 1))
    ELSE j <= Len(s) /\ AtomAccepts(re[k], s[j]) /\ MatchHere(re, k + 1, s, j + 1)

\* unanchored: a match may start anywhere in s
MatchString(re, s) == \E j \in 1..(Len(s) + 1) : MatchHere(re, 1, s, j)

-----------------------------------------------------------------------------
(* Configuration *)

StrategyForUnknownUrlsUseBrowserDefault == "use-browser-default"
StrategyForUnknownUrlsUseDefaultProfile == "use-default-profile"

DefaultChromeAppPath == "/Applications/Google Chrome.app"
DefaultProfileName == "Default"
DefaultLogLevel == "info"

\* the names logrus.ParseLevel accepts
LogLevelNames == {"panic", "fatal", "error", "warn", "warning", "info", "debug", "trace"}

\* the zero value of Config
ZeroConfig ==
    [ChromeAppPath |-> "", DefaultProfileDirectory |-> "",
     StrategyForUnknownUrls |-> "", Rules |-> <<>>, LogLevel |-> "",
     compiledRules |-> <<>>]

NoError == [kind |-> "nil", index |-> -1]
ConfigError(kind) == [kind |-> kind, index |-> -1]
RuleError(kind, i) == [kind |-> kind, index |-> i]

\* the loop over cfg.Rules reporting positions counted from one
RECURSIVE CompileRulesOneBased(_, _, _)
CompileRulesOneBased(rules, i, cr) ==
    IF i > Len(rules) THEN [err |-> NoError, cr |-> cr]
    ELSE LET r == rules[i] IN
         IF r.Pattern = <<>> \/ r.ProfileDirectory = "" THEN
            [err |-> RuleError("rule invalid", i), cr |-> <<>>]
         ELSE LET c == Compile(r.Pattern) IN
              IF ~c.ok THEN
                 [err |-> RuleError("compile regexp", i), cr |-> <<>>]
              ELSE CompileRulesOneBased(rules, i + 1,
                      Append(cr, [re |-> c.re, profileDirectory |-> r.ProfileDirectory]))

\* the loop over cfg.Rules: i is the 1-based position, the error carries
\* Go's zero-based index
RECURSIVE CompileRules(_, _, _)
CompileRules(rules, i, cr) ==
    IF i > Len(rules) THEN [err |-> NoError, cr |-> cr]
    ELSE LET r == rules[i] IN
         IF r.Pattern = <<>> \/ r.ProfileDirectory = "" THEN
            [err |-> RuleError("rule invalid", i - 1), cr |-> <<>>]
         ELSE LET c == Compile(r.Pattern) IN
              IF ~c.ok THEN
                 [err |-> RuleError("compile regexp", i - 1), cr |-> <<>>]
              ELSE CompileRules(rules, i + 1,
                      Append(cr, [re |-> c.re, profileDirectory |-> r.ProfileDirectory]))

\* loadConfig without the default for an empty DefaultProfileDirectory
loadConfigKeepsEmptyDefault(raw) ==
    IF raw.file = "missing" THEN [err |-> ConfigError("open config"), cfg |-> ZeroConfig]
    ELSE IF raw.file = "badjson" THEN
        [err |-> ConfigError("parse config JSON"), cfg |-> ZeroConfig]
    ELSE
        LET c0 == [ZeroConfig EXCEPT
                     !.ChromeAppPath = raw.json.ChromeAppPath,
                     !.DefaultProfileDirectory = raw.json.DefaultProfileDirectory,
                     !.StrategyForUnknownUrls = raw.json.StrategyForUnknownUrls,
                     !.Rules = raw.json.Rules,
                     !.LogLevel = raw.json.LogLevel]
            c2 == IF c0.ChromeAppPath = ""
                  THEN [c0 EXCEPT !.ChromeAppPath = DefaultChromeAppPath] ELSE c0
            res == CompileRules(c2.Rules, 1, <<>>)
        IN  IF res.err # NoError THEN [err |-> res.err, cfg |-> c2]
            ELSE LET c3 == [c2 EXCEPT !.compiledRules = res.cr]
                     c4 == IF c3.LogLevel = ""
                           THEN [c3 EXCEPT !.LogLevel = DefaultLogLevel] ELSE c3
                 IN  IF c4.LogLevel \notin LogLevelNames
                     THEN [err |-> ConfigError("parse log level"), cfg |-> c4]
                     ELSE [err |-> NoError, cfg |-> c4]

\* a configuration file: `file` is "missing", "badjson" or "ok"; `json` holds
\* the fields json.Unmarshal fills in
loadConfig(raw) ==
    IF raw.file = "missing" THEN [err |-> ConfigError("open config"), cfg |-> ZeroConfig]
    ELSE IF raw.file = "badjson" THEN
        [err |-> ConfigError("parse config JSON"), cfg |-> ZeroConfig]
    ELSE
        LET c0 == [ZeroConfig EXCEPT
                     !.ChromeAppPath = raw.json.ChromeAppPath,
                     !.DefaultProfileDirectory = raw.json.DefaultProfileDirectory,
                     !.StrategyForUnknownUrls = raw.json.StrategyForUnknownUrls,
                     !.Rules = raw.json.Rules,
                     !.LogLevel = raw.json.LogLevel]
            c1 == IF c0.ChromeAppPath = ""
                  THEN [c0 EXCEPT !.ChromeAppPath = DefaultChromeAppPath] ELSE c0
            c2 == IF c1.DefaultProfileDirectory = ""
                  THEN [c1 EXCEPT !.DefaultProfileDirectory = DefaultProfileName] ELSE c1
            res == CompileRules(c2.Rules, 1, <<>>)
        IN  IF res.err # NoError THEN [err |-> res.err, cfg |-> c2]
            ELSE LET c3 == [c2 EXCEPT !.compiledRules = res.cr]
                     c4 == IF c3.LogLevel = ""
                           THEN [c3 EXCEPT !.LogLevel = DefaultLogLevel] ELSE c3
                 IN  IF c4.LogLevel \notin LogLevelNames
                     THEN [err |-> ConfigError("parse log level"), cfg |-> c4]
                     ELSE [err |-> NoError, cfg |-> c4]

NoMatch == [found |-> FALSE, profileDirectory |-> ""]

\* the loop over config.compiledRules, scanning from the last rule
RECURSIVE LastMatch(_, _, _)
LastMatch(compiled, i, urlStr) ==
    IF i > Len(compiled) THEN NoMatch
    ELSE LET k == Len(compiled) + 1 - i IN
         IF MatchString(compiled[k].re, urlStr)
         THEN [found |-> TRUE, profileDirectory |-> compiled[k].profileDirectory]
         ELSE LastMatch(compiled, i + 1, urlStr)

\* the loop over config.compiledRules
RECURSIVE FirstMatch(_, _, _)
FirstMatch(compiled, i, urlStr) ==
    IF i > Len(compiled) THEN NoMatch
    ELSE IF MatchString(compiled[i].re, urlStr)
         THEN [found |-> TRUE, profileDirectory |-> compiled[i].profileDirectory]
    ELSE FirstMatch(compiled, i + 1, urlStr)

\* chooseProfile with the default profile as the fallback whatever the strategy
chooseProfileAlwaysFallback(urlStr, config) ==
    LET m == FirstMatch(config.compiledRules, 1, urlStr) IN
    IF m.found THEN m.profileDirectory ELSE config.DefaultProfileDirectory

\* chooseProfile taking the default profile unless the strategy is
\* use-browser-default
chooseProfileDefaultUnlessBrowser(urlStr, config) ==
    LET m == FirstMatch(config.compiledRules, 1, urlStr) IN
    IF m.found THEN m.profileDirectory
    ELSE IF config.StrategyForUnknownUrls = StrategyForUnknownUrlsUseBrowserDefault
         THEN ""
    ELSE config.DefaultProfileDirectory

chooseProfile(urlStr, config) ==
    LET m == FirstMatch(config.compiledRules, 1, urlStr) IN
    IF m.found THEN m.profileDirectory
    ELSE IF config.StrategyForUnknownUrls = StrategyForUnknownUrlsUseDefaultProfile
         THEN config.DefaultProfileDirectory
    ELSE ""  \* StrategyForUnknownUrlsUseBrowserDefault

-----------------------------------------------------------------------------
(* Inputs *)

UrlChars == {"a", "b"}
URLs == SeqsUpTo(UrlChars, MaxUrlLen)

PatternPool ==
    { <<>>, <<"a">>, <<"b">>, <<"a", "b">>, <<".">>, <<".", "*">>, <<"*">>, <<"(">> }
ProfilePool == {"", "Work", "Personal"}
RulePool == [Pattern : PatternPool, ProfileDirectory : ProfilePool]
RuleLists == SeqsUpTo(RulePool, MaxRules)

StrategyPool ==
    {"", StrategyForUnknownUrlsUseDefaultProfile,
     StrategyForUnknownUrlsUseBrowserDefault, "ask"}
DefaultProfilePool == {"", "Home"}

ZeroJson ==
    [ChromeAppPath |-> "", DefaultProfileDirectory |-> "",
     StrategyForUnknownUrls |-> "", Rules |-> <<>>, LogLevel |-> ""]

\* configuration files: every combination of rules, default profile and
\* strategy, and some with the other fields set or the file unusable
RawConfigs ==
    { [file |-> "ok",
       json |-> [ZeroJson EXCEPT !.Rules = rs, !.DefaultProfileDirectory = d,
                                 !.StrategyForUnknownUrls = st]] :
         rs \in RuleLists, d \in DefaultProfilePool, st \in StrategyPool }
    \cup
    { [file |-> f, json |-> ZeroJson] : f \in {"missing", "badjson"} }
    \cup
    { [file |-> "ok",
       json |-> [ZeroJson EXCEPT !.LogLevel = l, !.ChromeAppPath = a,
                                 !.Rules = <<[Pattern |-> <<"a">>, ProfileDirectory |-> "Work"]>>]] :
         l \in {"debug", "verbose"}, a \in {"", "/Applications/Chromium.app"} }

-----------------------------------------------------------------------------
(* The routing engine on one configuration and one URL *)

RouteIdle ==
    /\ rRaw = [file |-> "missing", json |-> ZeroJson]
    /\ rUrl = <<>>
    /\ rPc = "off"
    /\ rLoaded = [err |-> NoError, cfg |-> ZeroConfig]
    /\ rProfile = ""
    /\ rBuild = "listener"
    /\ rUrlStr = <<>>
    /\ rArgs = <<>>

RouteInit ==
    /\ rRaw \in RawConfigs
    /\ rUrl \in URLs
    /\ rPc = "load"
    /\ rLoaded = [err |-> NoError, cfg |-> ZeroConfig]
    /\ rProfile = ""
    /\ rBuild = "listener"
    /\ rUrlStr = <<>>
    /\ rArgs = <<>>

\* config, err := loadConfig(defaultConfigPath())
RouteLoad ==
    /\ rPc = "load"
    /\ rLoaded' = loadConfig(rRaw)
    /\ rPc' = IF rLoaded'.err = NoError THEN "choose" ELSE "failed"
    /\ UNCHANGED <<rRaw, rUrl, rProfile, rBuild, rUrlStr, rArgs,
                   listenerVars, guardVars, logVars, shotVars, cliVars>>

\* profile := chooseProfile(urlStr, config)
RouteChoose ==
    /\ rPc = "choose"
    /\ rProfile' = chooseProfile(rUrl, rLoaded.cfg)
    /\ rPc' = "done"
    /\ UNCHANGED <<rRaw, rUrl, rLoaded, rBuild, rUrlStr, rArgs,
                   listenerVars, guardVars, logVars, shotVars, cliVars>>

RouteNext == RouteLoad \/ RouteChoose

-----------------------------------------------------------------------------
(* One listener process: main(), the worker goroutine and the Cocoa main    *)
(* thread that calls HandleURL.  urlListener is unbuffered: a send and a    *)
(* receive complete together.                                               *)

ListenerRawConfigs ==
    { [file |-> "ok",
       json |-> [ZeroJson EXCEPT !.Rules = rs, !.DefaultProfileDirectory = "Home",
                                 !.StrategyForUnknownUrls = st]] :
         rs \in { <<>>,
                  << [Pattern |-> <<"a">>, ProfileDirectory |-> "Work"] >>,
                  << [Pattern |-> <<"*">>, ProfileDirectory |-> "Work"] >> },
         st \in {StrategyForUnknownUrlsUseDefaultProfile,
                 StrategyForUnknownUrlsUseBrowserDefault} }
    \cup { [file |-> f, json |-> ZeroJson] : f \in {"missing", "badjson"} }

\* the URLs the system hands to the listener: the empty string and the
\* one-character strings
ListenerUrls == { u \in URLs : Len(u) <= 1 }

\* the groups of variables a specification leaves untouched
LogIdle ==
    /\ received = <<>>
    /\ launchResults = <<>>

ShotIdle == clock = 0

NoFlags == [dryRun |-> FALSE, version |-> FALSE]
NoStdin == [piped |-> FALSE, text |-> <<>>]

CliIdle ==
    /\ cliFlags = NoFlags
    /\ cliArgs = <<>>
    /\ cliStdin = NoStdin
    /\ cliIdx = 0
    /\ firstErr = FALSE
    /\ printed = <<>>

ListenerIdle ==
    /\ lRaw = [file |-> "missing", json |-> ZeroJson]
    /\ lCfg = ZeroConfig
    /\ mainPc = "off"
    /\ exitCode = -1
    /\ workerPc = "off"
    /\ workerUrl = <<>>
    /\ workerProfile = ""
    /\ notifierPc = "off"
    /\ chanVal = <<>>
    /\ handed = <<>>
    /\ launchLog = <<>>
    /\ inflight = <<>>

ListenerInit ==
    /\ lRaw \in ListenerRawConfigs
    /\ lCfg = ZeroConfig
    /\ mainPc = "loadConfig"
    /\ exitCode = -1
    /\ workerPc = "off"
    /\ workerUrl = <<>>
    /\ workerProfile = ""
    /\ notifierPc = "off"
    /\ chanVal = <<>>
    /\ handed = <<>>
    /\ launchLog = <<>>
    /\ inflight = <<>>

\* os.Exit(code): the process and all its goroutines end
Exit(code) ==
    /\ mainPc' = "exited"
    /\ exitCode' = code
    /\ workerPc' = IF workerPc = "off" THEN "off" ELSE "dead"
    /\ notifierPc' = "off"
    /\ inflight' = <<>>

\* loadConfig's result assigned to a variable that shadows main's `config`
MainLoadConfigShadowed ==
    /\ mainPc = "loadConfig"
    /\ LET r == loadConfig(lRaw) IN
       /\ lCfg' = lCfg
       /\ IF r.err # NoError
          THEN Exit(2)
          ELSE /\ mainPc' = "openLog"
               /\ UNCHANGED <<exitCode, workerPc, notifierPc, inflight>>
    /\ UNCHANGED <<lRaw, workerUrl, workerProfile, chanVal, handed, launchLog,
                   logVars, routeVars, guardVars, shotVars, cliVars>>

\* loadConfig's error logged and main going on with what was loaded
MainLoadConfigGoesOn ==
    /\ mainPc = "loadConfig"
    /\ lCfg' = loadConfig(lRaw).cfg
    /\ mainPc' = "openLog"
    /\ UNCHANGED <<lRaw, exitCode, workerPc, notifierPc, inflight,
                   workerUrl, workerProfile, chanVal, handed, launchLog,
                   logVars, routeVars, guardVars, shotVars, cliVars>>

\* main: config, err := loadConfig(defaultConfigPath()); os.Exit(2) on error
MainLoadConfig ==
    /\ mainPc = "loadConfig"
    /\ LET r == loadConfig(lRaw) IN
       /\ lCfg' = r.cfg
       /\ IF r.err # NoError
          THEN Exit(2)
          ELSE /\ mainPc' = "openLog"
               /\ UNCHANGED <<exitCode, workerPc, notifierPc, inflight>>
    /\ UNCHANGED <<lRaw, workerUrl, workerProfile, chanVal, handed, launchLog,
                   logVars, routeVars, guardVars, shotVars, cliVars>>

MainOpenLog(ok) ==
    /\ mainPc = "openLog"
    /\ IF ~ok
       THEN Exit(2)
       ELSE /\ mainPc' = "isRunning"
            /\ UNCHANGED <<exitCode, workerPc, notifierPc, inflight>>
    /\ UNCHANGED <<lRaw, lCfg, workerUrl, workerProfile, chanVal, handed, launchLog,
                   logVars, routeVars, guardVars, shotVars, cliVars>>

\* the outcome of isRunning(pidFilePath) depends on the other processes
MainIsRunning(running) ==
    /\ mainPc = "isRunning"
    /\ IF running
       THEN Exit(0)
       ELSE /\ mainPc' = "writePid"
            /\ UNCHANGED <<exitCode, workerPc, notifierPc, inflight>>
    /\ UNCHANGED <<lRaw, lCfg, workerUrl, workerProfile, chanVal, handed, launchLog,
                   logVars, routeVars, guardVars, shotVars, cliVars>>

MainWritePid(ok) ==
    /\ mainPc = "writePid"
    /\ IF ~ok
       THEN Exit(2)
       ELSE /\ mainPc' = "startWorker"
            /\ UNCHANGED <<exitCode, workerPc, notifierPc, inflight>>
    /\ UNCHANGED <<lRaw, lCfg, workerUrl, workerProfile, chanVal, handed, launchLog,
                   logVars, routeVars, guardVars, shotVars, cliVars>>

\* go func() { for url := range urlListener { ... } }(); C.Run()
MainStartWorker ==
    /\ mainPc = "startWorker"
    /\ mainPc' = "run"
    /\ workerPc' = "recv"
    /\ notifierPc' = "idle"
    /\ UNCHANGED <<lRaw, lCfg, exitCode, workerUrl, workerProfile, chanVal,
                   handed, launchLog, inflight,
                   logVars, routeVars, guardVars, shotVars, cliVars>>

\* HandleURL: urlListener <- C.GoString(u); the sender waits for the receiver
HandleURL(u) ==
    /\ mainPc = "run"
    /\ notifierPc = "idle"
    /\ Len(handed) < MaxDeliveries
    /\ notifierPc' = "send"
    /\ chanVal' = u
    /\ handed' = Append(handed, u)
    /\ UNCHANGED <<lRaw, lCfg, mainPc, exitCode, workerPc, workerUrl,
                   workerProfile, launchLog, inflight,
                   logVars, routeVars, guardVars, shotVars, cliVars>>

\* the worker's receive with its loop variable left at the first URL
WorkerRecvStale ==
    /\ workerPc = "recv"
    /\ notifierPc = "send"
    /\ workerUrl' = IF launchLog = <<>> THEN chanVal ELSE workerUrl
    /\ workerPc' = "process"
    /\ notifierPc' = "idle"
    /\ received' = Append(received, chanVal)
    /\ UNCHANGED <<lRaw, lCfg, mainPc, exitCode, workerProfile, chanVal,
                   handed, launchLog, inflight, launchResults,
                   routeVars, guardVars, shotVars, cliVars>>

\* for url := range urlListener: the receive that completes HandleURL's send
WorkerRecv ==
    /\ workerPc = "recv"
    /\ notifierPc = "send"
    /\ workerUrl' = chanVal
    /\ workerPc' = "process"
    /\ notifierPc' = "idle"
    /\ received' = Append(received, chanVal)
    /\ UNCHANGED <<lRaw, lCfg, mainPc, exitCode, workerProfile, chanVal,
                   handed, launchLog, inflight, launchResults,
                   routeVars, guardVars, shotVars, cliVars>>

\* processURL: profile := chooseProfile(urlStr, config)
WorkerChoose ==
    /\ workerPc = "process"
    /\ workerProfile' = chooseProfile(workerUrl, lCfg)
    /\ workerPc' = "open"
    /\ UNCHANGED <<lRaw, lCfg, mainPc, exitCode, workerUrl, notifierPc, chanVal,
                   handed, launchLog, inflight,
                   logVars, routeVars, guardVars, shotVars, cliVars>>

Launch(profileDir, urlStr) == [url |-> urlStr, profileDir |-> profileDir]

\* the call started in a goroutine of its own, the worker going on at once
WorkerOpenAsync ==
    /\ workerPc = "open"
    /\ launchLog' = Append(launchLog, Launch(workerProfile, workerUrl))
    /\ inflight' = Append(inflight, Launch(workerProfile, workerUrl))
    /\ workerPc' = "recv"
    /\ UNCHANGED <<lRaw, lCfg, mainPc, exitCode, workerUrl, workerProfile,
                   notifierPc, chanVal, handed,
                   logVars, routeVars, guardVars, shotVars, cliVars>>

\* processURL: the call openInChrome(config.ChromeAppPath, profile, urlStr),
\* up to cmd.Run() starting the external process
WorkerOpen ==
    /\ workerPc = "open"
    /\ launchLog' = Append(launchLog, Launch(workerProfile, workerUrl))
    /\ inflight' = Append(inflight, Launch(workerProfile, workerUrl))
    /\ workerPc' = "launching"
    /\ UNCHANGED <<lRaw, lCfg, mainPc, exitCode, workerUrl, workerProfile,
                   notifierPc, chanVal, handed,
                   logVars, routeVars, guardVars, shotVars, cliVars>>

\* a failed launch treated as fatal: the process exits with status 3
OpenReturnsFatal(ok) ==
    /\ workerPc = "launching"
    /\ launchResults' = Append(launchResults, IF ok THEN "nil" ELSE "error")
    /\ IF ok
       THEN /\ inflight' = Tail(inflight)
            /\ workerPc' = "recv"
            /\ UNCHANGED <<mainPc, exitCode, notifierPc>>
       ELSE Exit(3)
    /\ UNCHANGED <<lRaw, lCfg, workerUrl, workerProfile,
                   chanVal, handed, launchLog, received,
                   routeVars, guardVars, shotVars, cliVars>>

\* a failed launch tried again: processURL calls openInChrome once more
OpenReturnsRetry(ok) ==
    /\ workerPc = "launching"
    /\ inflight' = Tail(inflight)
    /\ launchResults' = Append(launchResults, IF ok THEN "nil" ELSE "error")
    /\ workerPc' = IF ok \/ Len(launchLog) >= MaxDeliveries THEN "recv" ELSE "open"
    /\ UNCHANGED <<lRaw, lCfg, mainPc, exitCode, workerUrl, workerProfile,
                   notifierPc, chanVal, handed, launchLog, received,
                   routeVars, guardVars, shotVars, cliVars>>

\* cmd.Run() returns, with an error or without; processURL logs an error and
\* returns, and the worker loops
OpenReturns(ok) ==
    /\ workerPc = "launching"
    /\ inflight' = Tail(inflight)
    /\ launchResults' = Append(launchResults, IF ok THEN "nil" ELSE "error")
    /\ workerPc' = "recv"
    /\ UNCHANGED <<lRaw, lCfg, mainPc, exitCode, workerUrl, workerProfile,
                   notifierPc, chanVal, handed, launchLog, received,
                   routeVars, guardVars, shotVars, cliVars>>

\* the process is ended from outside while it listens
ListenerKilled ==
    /\ mainPc = "run"
    /\ mainPc' = "killed"
    /\ workerPc' = "dead"
    /\ notifierPc' = "off"
    /\ inflight' = <<>>
    /\ UNCHANGED <<lRaw, lCfg, exitCode, workerUrl, workerProfile, chanVal,
                   handed, launchLog,
                   logVars, routeVars, guardVars, shotVars, cliVars>>

ListenerNext ==
    \/ MainLoadConfig
    \/ \E ok \in BOOLEAN : MainOpenLog(ok)
    \/ \E running \in BOOLEAN : MainIsRunning(running)
    \/ \E ok \in BOOLEAN : MainWritePid(ok)
    \/ MainStartWorker
    \/ \E u \in ListenerUrls : HandleURL(u)
    \/ WorkerRecv
    \/ WorkerChoose
    \/ WorkerOpen
    \/ \E ok \in BOOLEAN : OpenReturns(ok)
    \/ ListenerKilled

-----------------------------------------------------------------------------
(* strconv.Itoa and strconv.Atoi on the pid file's bytes *)

DigitChars == <<"0", "1", "2", "3", "4", "5", "6", "7", "8", "9">>
IsDigit(c) == \E d \in 1..10 : DigitChars[d] = c
DigitValue(c) == (CHOOSE d \in 1..10 : DigitChars[d] = c) - 1

RECURSIVE Itoa(_)
Itoa(n) ==
    IF n < 10 THEN <<DigitChars[n + 1]>>
    ELSE Append(Itoa(n \div 10), DigitChars[(n % 10) + 1])

RECURSIVE AtoiDigits(_, _, _)
AtoiDigits(s, i, acc) ==
    IF i > Len(s) THEN [ok |-> TRUE, val |-> acc]
    ELSE IF ~IsDigit(s[i]) THEN [ok |-> FALSE, val |-> 0]
    ELSE AtoiDigits(s, i + 1, acc * 10 + DigitValue(s[i]))

\* a parse that keeps only the last digit
AtoiLastDigit(s) ==
    IF s = <<>> \/ ~IsDigit(s[Len(s)]) THEN [ok |-> FALSE, val |-> 0]
    ELSE [ok |-> TRUE, val |-> DigitValue(s[Len(s)])]

Atoi(s) == IF s = <<>> THEN [ok |-> FALSE, val |-> 0] ELSE AtoiDigits(s, 1, 0)

-----------------------------------------------------------------------------
(* Several processes of one build competing for the identity resource:      *)
(* the pid file read by isRunning and written by main, or the lock file     *)
(* main creates exclusively.                                                *)

Procs == 1..NumProcs

\* os.Getpid(): distinct for distinct processes
Getpid(p) == 8 + p

NoFile == [exists |-> FALSE, ino |-> 0, bytes |-> <<>>]

GuardIdle ==
    /\ variant = "off"
    /\ pc = [p \in Procs |-> "idle"]
    /\ alive = [p \in Procs |-> FALSE]
    /\ idFile = NoFile
    /\ fd = [p \in Procs |-> 0]
    /\ readData = [p \in Procs |-> 0]
    /\ staleSeen = [p \in Procs |-> FALSE]
    /\ holderSeen = [p \in Procs |-> 0]
    /\ gExit = [p \in Procs |-> -1]

GuardInit ==
    /\ variant \in {"pid", "lock"}
    /\ pc = [p \in Procs |-> "idle"]
    /\ alive = [p \in Procs |-> FALSE]
    /\ idFile = NoFile
    /\ fd = [p \in Procs |-> 0]
    /\ readData = [p \in Procs |-> 0]
    /\ staleSeen = [p \in Procs |-> FALSE]
    /\ holderSeen = [p \in Procs |-> 0]
    /\ gExit = [p \in Procs |-> -1]

\* os.Exit(code) in process p
GExit(p, code) ==
    /\ pc' = [pc EXCEPT ![p] = "exited"]
    /\ gExit' = [gExit EXCEPT ![p] = code]
    /\ alive' = [alive EXCEPT ![p] = FALSE]

\* syscall.Kill(pid, 0) == nil: a process with that pid exists
KillProbe(pid) == \E q \in Procs : alive[q] /\ Getpid(q) = pid

\* q is a live listener and the identity file is its own: the pid file holds
\* its pid, or the lock file is the one it created
Holds(q) ==
    /\ alive[q]
    /\ pc[q] = "listening"
    /\ idFile.exists
    /\ IF variant = "pid" THEN idFile.bytes = Itoa(Getpid(q)) ELSE idFile.ino = fd[q]

\* the live listener that holds the identity file, 0 if none
Holder == IF \E q \in Procs : Holds(q) THEN CHOOSE q \in Procs : Holds(q) ELSE 0

\* a process starts; main loads the configuration and opens the log file,
\* and exits with 2 when either fails
GStart(p, ok) ==
    /\ pc[p] = "idle"
    /\ IF ok
       THEN /\ pc' = [pc EXCEPT ![p] = IF variant = "pid" THEN "isRunning" ELSE "acquire"]
            /\ alive' = [alive EXCEPT ![p] = TRUE]
            /\ UNCHANGED gExit
       ELSE GExit(p, 2)
    /\ UNCHANGED <<variant, idFile, fd, readData, staleSeen, holderSeen,
                   routeVars, listenerVars, logVars, shotVars, cliVars>>

\* isRunning: os.ReadFile and strconv.Atoi; it returns false when either fails
IsRunningRead(p) ==
    /\ variant = "pid"
    /\ pc[p] = "isRunning"
    /\ LET a == Atoi(idFile.bytes) IN
       IF idFile.exists /\ a.ok
       THEN /\ readData' = [readData EXCEPT ![p] = a.val]
            /\ pc' = [pc EXCEPT ![p] = "probe"]
       ELSE /\ UNCHANGED readData
            /\ pc' = [pc EXCEPT ![p] = "write"]
    /\ holderSeen' = [holderSeen EXCEPT ![p] = Holder]
    /\ UNCHANGED <<variant, alive, idFile, fd, staleSeen, gExit,
                   routeVars, listenerVars, logVars, shotVars, cliVars>>

\* isRunning's probe with its result inverted
IsRunningProbeInverted(p) ==
    /\ variant = "pid"
    /\ pc[p] = "probe"
    /\ staleSeen' = [staleSeen EXCEPT ![p] = ~KillProbe(readData[p])]
    /\ holderSeen' = [holderSeen EXCEPT ![p] =
                        IF holderSeen[p] # 0 /\ alive[holderSeen[p]]
                        THEN holderSeen[p] ELSE 0]
    /\ IF ~KillProbe(readData[p])
       THEN GExit(p, 0)
       ELSE /\ pc' = [pc EXCEPT ![p] = "write"]
            /\ UNCHANGED <<alive, gExit>>
    /\ UNCHANGED <<variant, idFile, fd, readData,
                   routeVars, listenerVars, logVars, shotVars, cliVars>>

\* isRunning's probe with main reporting the running instance as a failure
IsRunningProbeExitOne(p) ==
    /\ variant = "pid"
    /\ pc[p] = "probe"
    /\ staleSeen' = [staleSeen EXCEPT ![p] = ~KillProbe(readData[p])]
    /\ holderSeen' = [holderSeen EXCEPT ![p] =
                        IF holderSeen[p] # 0 /\ alive[holderSeen[p]]
                        THEN holderSeen[p] ELSE 0]
    /\ IF KillProbe(readData[p])
       THEN GExit(p, 1)
       ELSE /\ pc' = [pc EXCEPT ![p] = "write"]
            /\ UNCHANGED <<alive, gExit>>
    /\ UNCHANGED <<variant, idFile, fd, readData,
                   routeVars, listenerVars, logVars, shotVars, cliVars>>

\* isRunning: syscall.Kill(pid, 0); main exits with 0 when it succeeds
IsRunningProbe(p) ==
    /\ variant = "pid"
    /\ pc[p] = "probe"
    /\ staleSeen' = [staleSeen EXCEPT ![p] = ~KillProbe(readData[p])]
    /\ holderSeen' = [holderSeen EXCEPT ![p] =
                        IF holderSeen[p] # 0 /\ alive[holderSeen[p]]
                        THEN holderSeen[p] ELSE 0]
    /\ IF KillProbe(readData[p])
       THEN GExit(p, 0)
       ELSE /\ pc' = [pc EXCEPT ![p] = "write"]
            /\ UNCHANGED <<alive, gExit>>
    /\ UNCHANGED <<variant, idFile, fd, readData,
                   routeVars, listenerVars, logVars, shotVars, cliVars>>

\* os.WriteFile, first half: open with O_WRONLY|O_CREATE|O_TRUNC
WriteOpen(p, ok) ==
    /\ variant = "pid"
    /\ pc[p] = "write"
    /\ IF ok
       THEN /\ idFile' = IF idFile.exists
                         THEN [idFile EXCEPT !.bytes = <<>>]
                         ELSE [exists |-> TRUE, ino |-> idFile.ino + 1, bytes |-> <<>>]
            /\ fd' = [fd EXCEPT ![p] = idFile'.ino]
            /\ pc' = [pc EXCEPT ![p] = "writing"]
            /\ UNCHANGED <<alive, gExit>>
       ELSE /\ GExit(p, 2)
            /\ UNCHANGED <<idFile, fd>>
    /\ UNCHANGED <<variant, readData, staleSeen, holderSeen,
                   routeVars, listenerVars, logVars, shotVars, cliVars>>

\* os.WriteFile, second half: write strconv.Itoa(os.Getpid()) and close; then
\* defer os.Remove(pidFilePath), start the worker and enter C.Run()
WriteData(p, ok) ==
    /\ variant = "pid"
    /\ pc[p] = "writing"
    /\ IF ok
       THEN /\ idFile' = IF idFile.exists /\ idFile.ino = fd[p]
                         THEN [idFile EXCEPT !.bytes = Itoa(Getpid(p))]
                         ELSE idFile
            /\ pc' = [pc EXCEPT ![p] = "listening"]
            /\ UNCHANGED <<alive, gExit>>
       ELSE /\ GExit(p, 2)
            /\ UNCHANGED idFile
    /\ UNCHANGED <<variant, fd, readData, staleSeen, holderSeen,
                   routeVars, listenerVars, logVars, shotVars, cliVars>>

\* the removal deferred before the result of os.OpenFile is looked at, and
\* main returning instead of calling os.Exit: a failed attempt removes the
\* lock file
LockAcquireRemovesOnFail(p, ioErr) ==
    /\ variant = "lock"
    /\ pc[p] = "acquire"
    /\ IF idFile.exists \/ ioErr
       THEN /\ GExit(p, 0)
            /\ idFile' = [idFile EXCEPT !.exists = FALSE, !.bytes = <<>>]
            /\ UNCHANGED fd
       ELSE /\ idFile' = [exists |-> TRUE, ino |-> idFile.ino + 1, bytes |-> <<>>]
            /\ fd' = [fd EXCEPT ![p] = idFile'.ino]
            /\ pc' = [pc EXCEPT ![p] = "listening"]
            /\ UNCHANGED <<alive, gExit>>
    /\ holderSeen' = [holderSeen EXCEPT ![p] = Holder]
    /\ UNCHANGED <<variant, readData, staleSeen,
                   routeVars, listenerVars, logVars, shotVars, cliVars>>

\* os.OpenFile(lockFilePath, os.O_CREATE|os.O_EXCL, 0600): main exits with 0
\* on any error; otherwise it defers the removal, starts the worker and
\* enters C.RunApp()
LockAcquire(p, ioErr) ==
    /\ variant = "lock"
    /\ pc[p] = "acquire"
    /\ IF idFile.exists \/ ioErr
       THEN /\ GExit(p, 0)
            /\ UNCHANGED <<idFile, fd>>
       ELSE /\ idFile' = [exists |-> TRUE, ino |-> idFile.ino + 1, bytes |-> <<>>]
            /\ fd' = [fd EXCEPT ![p] = idFile'.ino]
            /\ pc' = [pc EXCEPT ![p] = "listening"]
            /\ UNCHANGED <<alive, gExit>>
    /\ holderSeen' = [holderSeen EXCEPT ![p] = Holder]
    /\ UNCHANGED <<variant, readData, staleSeen,
                   routeVars, listenerVars, logVars, shotVars, cliVars>>

\* the event loop returns to main, which returns
RunReturns(p) ==
    /\ pc[p] = "listening"
    /\ pc' = [pc EXCEPT ![p] = "returning"]
    /\ UNCHANGED <<variant, alive, idFile, fd, readData, staleSeen, holderSeen, gExit,
                   routeVars, listenerVars, logVars, shotVars, cliVars>>

\* the deferred os.Remove of the identity file, and the process ends
DeferredRemove(p) ==
    /\ pc[p] = "returning"
    /\ idFile' = [idFile EXCEPT !.exists = FALSE, !.bytes = <<>>]
    /\ GExit(p, 0)
    /\ UNCHANGED <<variant, fd, readData, staleSeen, holderSeen,
                   routeVars, listenerVars, logVars, shotVars, cliVars>>

\* the application is asked to quit while it listens:
\* applicationShouldTerminate answers NSTerminateNow and the framework ends
\* the process from inside the event loop, which never returns to main, so
\* main's deferred calls do not run
AppTerminate(p) ==
    /\ pc[p] = "listening"
    /\ pc' = [pc EXCEPT ![p] = "terminated"]
    /\ gExit' = [gExit EXCEPT ![p] = 0]
    /\ alive' = [alive EXCEPT ![p] = FALSE]
    /\ UNCHANGED <<variant, idFile, fd, readData, staleSeen, holderSeen,
                   routeVars, listenerVars, logVars, shotVars, cliVars>>

\* the process is ended from outside by a signal, without running its
\* deferred calls
Terminate(p) ==
    /\ alive[p]
    /\ pc' = [pc EXCEPT ![p] = "killed"]
    /\ alive' = [alive EXCEPT ![p] = FALSE]
    /\ UNCHANGED <<variant, idFile, fd, readData, staleSeen, holderSeen, gExit,
                   routeVars, listenerVars, logVars, shotVars, cliVars>>

GuardNext ==
    \/ \E p \in Procs, ok \in BOOLEAN : GStart(p, ok)
    \/ \E p \in Procs : IsRunningRead(p)
    \/ \E p \in Procs : IsRunningProbe(p)
    \/ \E p \in Procs, ok \in BOOLEAN : WriteOpen(p, ok)
    \/ \E p \in Procs, ok \in BOOLEAN : WriteData(p, ok)
    \/ \E p \in Procs, ioErr \in BOOLEAN : LockAcquire(p, ioErr)
    \/ \E p \in Procs : RunReturns(p)
    \/ \E p \in Procs : DeferredRemove(p)
    \/ \E p \in Procs : AppTerminate(p)
    \/ \E p \in Procs : Terminate(p)

-----------------------------------------------------------------------------
(* The one-shot build: main loads the configuration into the globals        *)
(* `config` and `compiledRules`, starts one goroutine and enters the Cocoa  *)
(* event loop; the goroutine waits in a select for the first URL or for the *)
(* timer, and ends the process either way.  The build is one process, so it *)
(* is described with the variables of the listener process; lCfg holds the  *)
(* two globals.  A goroutine parked in the select is committed to a case by *)
(* whichever comes first, the sender or the timer; a sender that finds no   *)
(* parked receiver waits.                                                   *)

TimeoutSeconds == 4

ZeroBasicConfig ==
    [ChromeAppPath |-> "", DefaultProfileDirectory |-> "", Rules |-> <<>>]

NoGlobals == [config |-> ZeroBasicConfig, compiledRules |-> <<>>]

\* loadConfig returning (Config, []compiledRule, error)
loadConfigBasic(raw) ==
    IF raw.file = "missing" THEN
        [err |-> ConfigError("open config"), config |-> ZeroBasicConfig,
         compiledRules |-> <<>>]
    ELSE IF raw.file = "badjson" THEN
        [err |-> ConfigError("parse config JSON"), config |-> ZeroBasicConfig,
         compiledRules |-> <<>>]
    ELSE
        LET c0 == [ChromeAppPath |-> raw.json.ChromeAppPath,
                   DefaultProfileDirectory |-> raw.json.DefaultProfileDirectory,
                   Rules |-> raw.json.Rules]
            c1 == IF c0.ChromeAppPath = ""
                  THEN [c0 EXCEPT !.ChromeAppPath = DefaultChromeAppPath] ELSE c0
            c2 == IF c1.DefaultProfileDirectory = ""
                  THEN [c1 EXCEPT !.DefaultProfileDirectory = DefaultProfileName] ELSE c1
            res == CompileRules(c2.Rules, 1, <<>>)
        IN  IF res.err # NoError
            THEN [err |-> res.err, config |-> c2, compiledRules |-> <<>>]
            ELSE [err |-> NoError, config |-> c2, compiledRules |-> res.cr]

\* chooseProfile(urlStr, compiled, fallback)
chooseProfileOr(urlStr, compiled, fallback) ==
    LET m == FirstMatch(compiled, 1, urlStr) IN
    IF m.found THEN m.profileDirectory ELSE fallback

ShotRawConfigs ==
    { [file |-> "ok",
       json |-> [ZeroJson EXCEPT !.Rules = rs, !.DefaultProfileDirectory = d]] :
         rs \in { <<>>,
                  << [Pattern |-> <<"a">>, ProfileDirectory |-> "Work"] >>,
                  << [Pattern |-> <<"(">>, ProfileDirectory |-> "Work"] >> },
         d \in DefaultProfilePool }
    \cup { [file |-> "missing", json |-> ZeroJson] }

ShotInit ==
    /\ lRaw \in ShotRawConfigs
    /\ lCfg = NoGlobals
    /\ mainPc = "loadConfig"
    /\ exitCode = -1
    /\ workerPc = "off"
    /\ workerUrl = <<>>
    /\ workerProfile = ""
    /\ notifierPc = "off"
    /\ chanVal = <<>>
    /\ handed = <<>>
    /\ launchLog = <<>>
    /\ inflight = <<>>
    /\ received = <<>>
    /\ launchResults = <<>>
    /\ clock = 0

\* config, compiledRules, err = loadConfig(defaultConfigPath())
ShotLoadConfig ==
    /\ mainPc = "loadConfig"
    /\ LET r == loadConfigBasic(lRaw) IN
       /\ lCfg' = [config |-> r.config, compiledRules |-> r.compiledRules]
       /\ IF r.err # NoError
          THEN Exit(2)
          ELSE /\ mainPc' = "spawn"
               /\ UNCHANGED <<exitCode, workerPc, notifierPc, inflight>>
    /\ UNCHANGED <<lRaw, workerUrl, workerProfile, chanVal, handed, launchLog,
                   logVars, shotVars, routeVars, guardVars, cliVars>>

\* go func() { ... }(); C.RunApp()
ShotSpawn ==
    /\ mainPc = "spawn"
    /\ mainPc' = "run"
    /\ workerPc' = "start"
    /\ notifierPc' = "idle"
    /\ UNCHANGED <<lRaw, lCfg, exitCode, workerUrl, workerProfile, chanVal,
                   handed, launchLog, inflight,
                   logVars, shotVars, routeVars, guardVars, cliVars>>

\* timeout := time.After(4 * time.Second); select { ... }: a sender already
\* waiting is received from, otherwise the goroutine parks
ShotSelect ==
    /\ workerPc = "start"
    /\ clock' = 0
    /\ IF notifierPc = "send"
       THEN /\ workerUrl' = chanVal
            /\ received' = Append(received, chanVal)
            /\ workerPc' = "process"
            /\ notifierPc' = "idle"
       ELSE /\ workerPc' = "select"
            /\ UNCHANGED <<workerUrl, received, notifierPc>>
    /\ UNCHANGED <<lRaw, lCfg, mainPc, exitCode, workerProfile, chanVal, handed,
                   launchLog, inflight, launchResults,
                   routeVars, guardVars, cliVars>>

\* HandleURL: urlListener <- C.GoString(u); a goroutine parked in the select
\* takes the value at once (case url := <-urlListener), otherwise the sender
\* waits
ShotHandleURL(u) ==
    /\ mainPc = "run"
    /\ notifierPc = "idle"
    /\ Len(handed) < MaxDeliveries
    /\ handed' = Append(handed, u)
    /\ IF workerPc = "select"
       THEN /\ workerUrl' = u
            /\ received' = Append(received, u)
            /\ workerPc' = "process"
            /\ UNCHANGED <<notifierPc, chanVal>>
       ELSE /\ notifierPc' = "send"
            /\ chanVal' = u
            /\ UNCHANGED <<workerUrl, received, workerPc>>
    /\ UNCHANGED <<lRaw, lCfg, mainPc, exitCode, workerProfile, launchLog,
                   inflight, launchResults,
                   shotVars, routeVars, guardVars, cliVars>>

\* the timer ending the goroutine's work wherever it is once four seconds
\* have passed
ShotTickCancels ==
    /\ mainPc = "run"
    /\ workerPc \notin {"off", "start"}
    /\ clock < TimeoutSeconds
    /\ clock' = clock + 1
    /\ workerPc' = IF clock + 1 = TimeoutSeconds THEN "timeout" ELSE workerPc
    /\ UNCHANGED <<lRaw, lCfg, mainPc, exitCode, workerUrl, workerProfile,
                   notifierPc, chanVal, handed, launchLog, inflight,
                   logVars, routeVars, guardVars, cliVars>>

\* a second passes; at four seconds the timer's channel becomes ready, which
\* commits a goroutine parked in the select to case <-timeout
ShotTick ==
    /\ mainPc = "run"
    /\ workerPc \notin {"off", "start"}
    /\ clock < TimeoutSeconds
    /\ clock' = clock + 1
    /\ workerPc' = IF clock + 1 = TimeoutSeconds /\ workerPc = "select"
                   THEN "timeout" ELSE workerPc
    /\ UNCHANGED <<lRaw, lCfg, mainPc, exitCode, workerUrl, workerProfile,
                   notifierPc, chanVal, handed, launchLog, inflight,
                   logVars, routeVars, guardVars, cliVars>>

\* case <-timeout with the exit status of the URL case
ShotTimeoutExitZero ==
    /\ workerPc = "timeout"
    /\ Exit(0)
    /\ UNCHANGED <<lRaw, lCfg, workerUrl, workerProfile, chanVal, handed, launchLog,
                   logVars, shotVars, routeVars, guardVars, cliVars>>

\* case <-timeout printing its message and leaving the goroutine without
\* ending the process
ShotTimeoutReturns ==
    /\ workerPc = "timeout"
    /\ workerPc' = "dead"
    /\ UNCHANGED <<lRaw, lCfg, mainPc, exitCode, workerUrl, workerProfile,
                   notifierPc, chanVal, handed, launchLog, inflight,
                   logVars, shotVars, routeVars, guardVars, cliVars>>

\* case <-timeout: "No URLs received within timeout"; os.Exit(1)
ShotTimeout ==
    /\ workerPc = "timeout"
    /\ Exit(1)
    /\ UNCHANGED <<lRaw, lCfg, workerUrl, workerProfile, chanVal, handed, launchLog,
                   logVars, shotVars, routeVars, guardVars, cliVars>>

\* processURL: profile := chooseProfile(urlStr, compiledRules,
\* config.DefaultProfileDirectory)
ShotChoose ==
    /\ workerPc = "process"
    /\ workerProfile' = chooseProfileOr(workerUrl, lCfg.compiledRules,
                                        lCfg.config.DefaultProfileDirectory)
    /\ workerPc' = "open"
    /\ UNCHANGED <<lRaw, lCfg, mainPc, exitCode, workerUrl, notifierPc, chanVal,
                   handed, launchLog, inflight,
                   logVars, shotVars, routeVars, guardVars, cliVars>>

\* processURL: the call openInChrome(config.ChromeAppPath, profile, urlStr),
\* up to cmd.Run() starting the external process
ShotOpen ==
    /\ workerPc = "open"
    /\ launchLog' = Append(launchLog, Launch(workerProfile, workerUrl))
    /\ inflight' = Append(inflight, Launch(workerProfile, workerUrl))
    /\ workerPc' = "launching"
    /\ UNCHANGED <<lRaw, lCfg, mainPc, exitCode, workerUrl, workerProfile,
                   notifierPc, chanVal, handed,
                   logVars, shotVars, routeVars, guardVars, cliVars>>

\* cmd.Run() returns, with an error or without; processURL prints an error
\* and returns
ShotOpenReturns(ok) ==
    /\ workerPc = "launching"
    /\ inflight' = Tail(inflight)
    /\ launchResults' = Append(launchResults, IF ok THEN "nil" ELSE "error")
    /\ workerPc' = "processed"
    /\ UNCHANGED <<lRaw, lCfg, mainPc, exitCode, workerUrl, workerProfile,
                   notifierPc, chanVal, handed, launchLog, received,
                   shotVars, routeVars, guardVars, cliVars>>

\* the URL case written as a loop: the goroutine goes back to the select
ShotExitLoops ==
    /\ workerPc = "processed"
    /\ workerPc' = "start"
    /\ UNCHANGED <<lRaw, lCfg, mainPc, exitCode, workerUrl, workerProfile,
                   notifierPc, chanVal, handed, launchLog, inflight,
                   logVars, shotVars, routeVars, guardVars, cliVars>>

\* case url := <-urlListener: after processURL(url), os.Exit(0)
ShotExit ==
    /\ workerPc = "processed"
    /\ Exit(0)
    /\ UNCHANGED <<lRaw, lCfg, workerUrl, workerProfile, chanVal, handed, launchLog,
                   logVars, shotVars, routeVars, guardVars, cliVars>>

ShotStep ==
    \/ ShotLoadConfig
    \/ ShotSpawn
    \/ ShotSelect
    \/ ShotTick
    \/ ShotTimeout
    \/ ShotChoose
    \/ ShotOpen
    \/ \E ok \in BOOLEAN : ShotOpenReturns(ok)
    \/ ShotExit

ShotNext ==
    \/ ShotStep
    \/ \E u \in URLs : ShotHandleURL(u)

-----------------------------------------------------------------------------
(* The command-line build: main parses its flags, loads the configuration,  *)
(* collects the URLs from the arguments or from standard input, and routes  *)
(* them one after the other in a loop, launching each unless -dry-run is    *)
(* given.  It is one process without goroutines; lCfg holds main's locals   *)
(* cfg and compiledRules.                                                   *)

\* strings.HasPrefix
HasPrefix(s, prefix) ==
    /\ Len(s) >= Len(prefix)
    /\ SubSeq(s, 1, Len(prefix)) = prefix

\* strings.Contains for a one-character substring
Contains(s, c) == \E i \in 1..Len(s) : s[i] = c

\* strings.TrimSpace; the space is the white space of the model's strings
RECURSIVE TrimSpace(_)
TrimSpace(s) ==
    IF s = <<>> THEN s
    ELSE IF Head(s) = " " THEN TrimSpace(Tail(s))
    ELSE IF s[Len(s)] = " " THEN TrimSpace(SubSeq(s, 1, Len(s) - 1))
    ELSE s

isLikelyURL(s) ==
    IF \/ HasPrefix(s, <<"h", "t", "t", "p", ":", "/", "/">>)
       \/ HasPrefix(s, <<"h", "t", "t", "p", "s", ":", "/", "/">>)
       \/ HasPrefix(s, <<"f", "i", "l", "e", ":", "/", "/">>)
       \/ HasPrefix(s, <<"m", "a", "i", "l", "t", "o", ":">>)
    THEN TRUE
    ELSE Contains(s, ".") \/ Contains(s, ":")

MaxArgs == 2

\* command-line arguments: plain text, a host name, one with spaces around
\* it, and a mailto URL
CliArgPool ==
    { <<"a">>,
      <<"a", ".", "b">>,
      <<" ", "b", ".", " ">>,
      <<"m", "a", "i", "l", "t", "o", ":", "a">> }

CliStdinPool ==
    { NoStdin,
      [piped |-> TRUE, text |-> <<>>],
      [piped |-> TRUE, text |-> <<" ", "a", ".", "b", " ">>] }

CliRawConfigs ==
    { [file |-> "ok",
       json |-> [ZeroJson EXCEPT !.Rules = rs, !.DefaultProfileDirectory = d]] :
         rs \in { <<>>, << [Pattern |-> <<"a">>, ProfileDirectory |-> "Work"] >> },
         d \in DefaultProfilePool }
    \cup { [file |-> "missing", json |-> ZeroJson] }

CliInit ==
    /\ cliFlags \in [dryRun : BOOLEAN, version : BOOLEAN]
    /\ cliArgs \in SeqsUpTo(CliArgPool, MaxArgs)
    /\ cliStdin \in CliStdinPool
    /\ cliIdx = 0
    /\ firstErr = FALSE
    /\ printed = <<>>
    /\ lRaw \in CliRawConfigs
    /\ lCfg = NoGlobals
    /\ mainPc = "flags"
    /\ exitCode = -1
    /\ workerPc = "off"
    /\ workerUrl = <<>>
    /\ workerProfile = ""
    /\ notifierPc = "off"
    /\ chanVal = <<>>
    /\ handed = <<>>
    /\ launchLog = <<>>
    /\ inflight = <<>>
    /\ received = <<>>
    /\ launchResults = <<>>

\* flag.Parse(); -version prints the version and main returns
CliParseFlags ==
    /\ mainPc = "flags"
    /\ IF cliFlags.version
       THEN Exit(0)
       ELSE /\ mainPc' = "loadConfig"
            /\ UNCHANGED <<exitCode, workerPc, notifierPc, inflight>>
    /\ UNCHANGED <<lRaw, lCfg, workerUrl, workerProfile, chanVal, handed, launchLog,
                   logVars, cliVars, shotVars, routeVars, guardVars>>

\* cfg, compiledRules, err := loadConfig(cfgPath); os.Exit(2) on error
CliLoadConfig ==
    /\ mainPc = "loadConfig"
    /\ LET r == loadConfigBasic(lRaw) IN
       /\ lCfg' = [config |-> r.config, compiledRules |-> r.compiledRules]
       /\ IF r.err # NoError
          THEN Exit(2)
          ELSE /\ mainPc' = "collect"
               /\ UNCHANGED <<exitCode, workerPc, notifierPc, inflight>>
    /\ UNCHANGED <<lRaw, workerUrl, workerProfile, chanVal, handed, launchLog,
                   logVars, cliVars, shotVars, routeVars, guardVars>>

\* args := flag.Args(), with the trimmed text of a piped standard input as
\* the fallback; "No URL provided." and os.Exit(1) when there is none
CliCollectArgs ==
    /\ mainPc = "collect"
    /\ LET txt == TrimSpace(cliStdin.text)
           args == IF cliArgs = <<>> /\ cliStdin.piped /\ txt # <<>>
                   THEN <<txt>> ELSE cliArgs
       IN  /\ cliArgs' = args
           /\ IF args = <<>>
              THEN /\ Exit(1)
                   /\ UNCHANGED cliIdx
              ELSE /\ mainPc' = "loop"
                   /\ cliIdx' = 1
                   /\ UNCHANGED <<exitCode, workerPc, notifierPc, inflight>>
    /\ UNCHANGED <<lRaw, lCfg, workerUrl, workerProfile, chanVal, handed, launchLog,
                   cliFlags, cliStdin, firstErr, printed,
                   logVars, shotVars, routeVars, guardVars>>

\* the loop body with the -dry-run test left out
CliLoopStepAlwaysOpens ==
    /\ mainPc = "loop"
    /\ cliIdx <= Len(cliArgs)
    /\ LET raw == cliArgs[cliIdx]
           urlStr == TrimSpace(raw)
           profile == chooseProfileOr(urlStr, lCfg.compiledRules,
                                      lCfg.config.DefaultProfileDirectory)
       IN  IF ~isLikelyURL(raw)
           THEN /\ cliIdx' = cliIdx + 1
                /\ UNCHANGED <<printed, launchLog, inflight, mainPc>>
           ELSE /\ printed' = Append(printed, Launch(profile, urlStr))
                /\ launchLog' = Append(launchLog, Launch(profile, urlStr))
                /\ inflight' = Append(inflight, Launch(profile, urlStr))
                /\ mainPc' = "launching"
                /\ UNCHANGED cliIdx
    /\ UNCHANGED <<lRaw, lCfg, exitCode, workerPc, workerUrl, workerProfile,
                   notifierPc, chanVal, handed,
                   cliFlags, cliArgs, cliStdin, firstErr,
                   logVars, shotVars, routeVars, guardVars>>

\* for _, raw := range args: skip what isLikelyURL rejects, choose the
\* profile, print the "Routing:" line, and call openInChrome unless -dry-run
CliLoopStep ==
    /\ mainPc = "loop"
    /\ cliIdx <= Len(cliArgs)
    /\ LET raw == cliArgs[cliIdx]
           urlStr == TrimSpace(raw)
           profile == chooseProfileOr(urlStr, lCfg.compiledRules,
                                      lCfg.config.DefaultProfileDirectory)
       IN  IF ~isLikelyURL(raw)
           THEN /\ cliIdx' = cliIdx + 1
                /\ UNCHANGED <<printed, launchLog, inflight, mainPc>>
           ELSE /\ printed' = Append(printed, Launch(profile, urlStr))
                /\ IF cliFlags.dryRun
                   THEN /\ cliIdx' = cliIdx + 1
                        /\ UNCHANGED <<launchLog, inflight, mainPc>>
                   ELSE /\ launchLog' = Append(launchLog, Launch(profile, urlStr))
                        /\ inflight' = Append(inflight, Launch(profile, urlStr))
                        /\ mainPc' = "launching"
                        /\ UNCHANGED cliIdx
    /\ UNCHANGED <<lRaw, lCfg, exitCode, workerPc, workerUrl, workerProfile,
                   notifierPc, chanVal, handed,
                   cliFlags, cliArgs, cliStdin, firstErr,
                   logVars, shotVars, routeVars, guardVars>>

\* openInChrome returns; an error is printed and kept in firstErr
CliOpenReturns(ok) ==
    /\ mainPc = "launching"
    /\ inflight' = Tail(inflight)
    /\ launchResults' = Append(launchResults, IF ok THEN "nil" ELSE "error")
    /\ firstErr' = (firstErr \/ ~ok)
    /\ cliIdx' = cliIdx + 1
    /\ mainPc' = "loop"
    /\ UNCHANGED <<lRaw, lCfg, exitCode, workerPc, workerUrl, workerProfile,
                   notifierPc, chanVal, handed, launchLog, received,
                   cliFlags, cliArgs, cliStdin, printed,
                   shotVars, routeVars, guardVars>>

\* after the loop: os.Exit(3) if any launch failed, otherwise main returns
CliFinish ==
    /\ mainPc = "loop"
    /\ cliIdx > Len(cliArgs)
    /\ Exit(IF firstErr THEN 3 ELSE 0)
    /\ UNCHANGED <<lRaw, lCfg, workerUrl, workerProfile, chanVal, handed, launchLog,
                   logVars, cliVars, shotVars, routeVars, guardVars>>

CliNext ==
    \/ CliParseFlags
    \/ CliLoadConfig
    \/ CliCollectArgs
    \/ CliLoopStep
    \/ \E ok \in BOOLEAN : CliOpenReturns(ok)
    \/ CliFinish

-----------------------------------------------------------------------------
(* processURL and openInChrome on one URL: the profile is chosen on the URL *)
(* as received, openInChrome then parses its own copy and may prefix it,    *)
(* and builds the argument list of `open`.  url.Parse is modelled on the    *)
(* characters of the model's URLs: letters, the digit "1", ".", ":" and     *)
(* "/"; on these a parse fails for a leading colon, for a colon in the      *)
(* first path segment of a URL without scheme, and for a port that is not a *)
(* number.                                                                  *)

LetterChars == {"a", "b", "h", "t", "p"}

\* the characters a scheme may hold after its first: digits, "+", "-", "."
SchemePunctChars == {"1", "+", "-", "."}

\* net/url getScheme: the text before the first colon when it is a scheme
RECURSIVE getScheme(_, _)
getScheme(rawURL, i) ==
    IF i > Len(rawURL) THEN [ok |-> TRUE, scheme |-> <<>>, rest |-> rawURL]
    ELSE LET c == rawURL[i] IN
         IF c \in LetterChars THEN getScheme(rawURL, i + 1)
         ELSE IF c \in SchemePunctChars THEN
            IF i = 1 THEN [ok |-> TRUE, scheme |-> <<>>, rest |-> rawURL]
            ELSE getScheme(rawURL, i + 1)
         ELSE IF c = ":" THEN
            IF i = 1 THEN [ok |-> FALSE, scheme |-> <<>>, rest |-> <<>>]
            ELSE [ok |-> TRUE, scheme |-> SubSeq(rawURL, 1, i - 1),
                  rest |-> SubSeq(rawURL, i + 1, Len(rawURL))]
         ELSE [ok |-> TRUE, scheme |-> <<>>, rest |-> rawURL]

\* the text before the first "/" (strings.Cut)
FirstSegment(s) ==
    IF Contains(s, "/")
    THEN SubSeq(s, 1, Min({i \in 1..Len(s) : s[i] = "/"}) - 1)
    ELSE s

\* net/url validOptionalPort: empty, or a colon followed by digits
validOptionalPort(port) ==
    \/ port = <<>>
    \/ /\ port[1] = ":"
       /\ \A i \in 2..Len(port) : IsDigit(port[i])

\* net/url parseHost on a host without brackets: the text from the last
\* colon on must be a port
parseHostOk(host) ==
    LET colons == {i \in 1..Len(host) : host[i] = ":"} IN
    IF colons = {} THEN TRUE
    ELSE LET i == CHOOSE k \in colons : \A j \in colons : j <= k
         IN  validOptionalPort(SubSeq(host, i, Len(host)))

\* url.Parse: whether it returns a nil error, and the Scheme of the result
UrlParse(rawURL) ==
    LET g == getScheme(rawURL, 1)
        failed == [ok |-> FALSE, scheme |-> <<>>]
    IN  IF ~g.ok THEN failed
        ELSE IF ~HasPrefix(g.rest, <<"/">>) THEN
            IF g.scheme # <<>> THEN [ok |-> TRUE, scheme |-> g.scheme]
            ELSE IF Contains(FirstSegment(g.rest), ":") THEN failed
            ELSE [ok |-> TRUE, scheme |-> g.scheme]
        ELSE IF /\ g.scheme # <<>> \/ ~HasPrefix(g.rest, <<"/", "/", "/">>)
                /\ HasPrefix(g.rest, <<"/", "/">>)
             THEN LET authority == FirstSegment(SubSeq(g.rest, 3, Len(g.rest)))
                  IN  IF parseHostOk(authority)
                      THEN [ok |-> TRUE, scheme |-> g.scheme] ELSE failed
        ELSE [ok |-> TRUE, scheme |-> g.scheme]

HttpText == <<"h", "t", "t", "p">>
HttpPrefix == <<"h", "t", "t", "p", ":", "/", "/">>

\* openInChrome with the prefix added when the parse fails as well
NormalizeAlsoOnError(urlStr) ==
    LET u == UrlParse(urlStr) IN
    IF ~u.ok THEN HttpPrefix \o urlStr
    ELSE IF u.scheme = <<>> /\ ~HasPrefix(urlStr, HttpText) THEN HttpPrefix \o urlStr
    ELSE urlStr

\* openInChrome: u, err := url.Parse(urlStr) and the two branches after it
Normalize(urlStr) ==
    LET u == UrlParse(urlStr) IN
    IF ~u.ok THEN urlStr
    ELSE IF u.scheme = <<>> /\ ~HasPrefix(urlStr, HttpText) THEN HttpPrefix \o urlStr
    ELSE urlStr

\* one argument of `open`: fixed text, a path, "--profile-directory="
\* followed by the profile, or the URL
FlagArg(text) == [kind |-> "flag", str |-> text, chars |-> <<>>]
PathArg(path) == [kind |-> "path", str |-> path, chars |-> <<>>]
ProfileArg(dir) == [kind |-> "--profile-directory=", str |-> dir, chars |-> <<>>]
UrlArg(u) == [kind |-> "url", str |-> "", chars |-> u]

\* openInChrome of the one-shot and command-line builds: args
openArgsAlways(chromeAppPath, profileDir, urlStr) ==
    << FlagArg("-na"), PathArg(chromeAppPath), FlagArg("--args"),
       ProfileArg(profileDir), UrlArg(urlStr) >>

\* args with the URL appended before the profile argument
openArgsUrlBeforeProfile(chromeAppPath, profileDir, urlStr) ==
    LET args0 == << FlagArg("-na"), PathArg(chromeAppPath), FlagArg("--args"),
                    UrlArg(urlStr) >>
    IN  IF profileDir # "" THEN Append(args0, ProfileArg(profileDir)) ELSE args0

\* openInChrome of the listener builds: args
openArgs(chromeAppPath, profileDir, urlStr) ==
    LET args0 == << FlagArg("-na"), PathArg(chromeAppPath), FlagArg("--args") >>
        args1 == IF profileDir # "" THEN Append(args0, ProfileArg(profileDir))
                 ELSE args0
    IN  Append(args1, UrlArg(urlStr))

OpenUrlPool ==
    { <<>>,
      <<"a">>,
      <<"a", ".", "b">>,
      <<"h", "t", "t", "p", "a">>,
      <<"h", "t", "t", "p", ":", "/", "/", "a">>,
      <<"b", ":", "a">>,
      <<"a", "/", "b", ":", "1">>,
      <<"/", "a", ":", "b">>,
      <<":", "a">>,
      <<"1", ":", "a">>,
      <<"/", "/", "a", ":", "b">>,
      <<"h", "t", "t", "p", ":", "/", "/", "a", ":", "b">> }

OpenRawConfigs ==
    { [file |-> "ok",
       json |-> [ZeroJson EXCEPT !.Rules = rs, !.DefaultProfileDirectory = d,
                                 !.StrategyForUnknownUrls = st]] :
         rs \in { <<>>,
                  << [Pattern |-> <<"a">>, ProfileDirectory |-> "Work"] >>,
                  << [Pattern |-> <<"t">>, ProfileDirectory |-> "Personal"] >> },
         d \in DefaultProfilePool,
         st \in {StrategyForUnknownUrlsUseDefaultProfile,
                 StrategyForUnknownUrlsUseBrowserDefault} }
    \cup { [file |-> "missing", json |-> ZeroJson] }

OpenInit ==
    /\ rRaw \in OpenRawConfigs
    /\ rUrl \in OpenUrlPool
    /\ rBuild \in {"listener", "oneshot"}
    /\ rPc = "load"
    /\ rLoaded = [err |-> NoError, cfg |-> ZeroConfig]
    /\ rProfile = ""
    /\ rUrlStr = <<>>
    /\ rArgs = <<>>

\* main: loadConfig, of the build that runs
OpenLoad ==
    /\ rPc = "load"
    /\ rLoaded' = IF rBuild = "listener" THEN loadConfig(rRaw)
                  ELSE LET r == loadConfigBasic(rRaw) IN
                       [err |-> r.err,
                        cfg |-> [ChromeAppPath |-> r.config.ChromeAppPath,
                                 DefaultProfileDirectory |-> r.config.DefaultProfileDirectory,
                                 Rules |-> r.config.Rules,
                                 compiledRules |-> r.compiledRules]]
    /\ rPc' = IF rLoaded'.err = NoError THEN "choose" ELSE "failed"
    /\ UNCHANGED <<rRaw, rUrl, rProfile, rBuild, rUrlStr, rArgs,
                   listenerVars, guardVars, logVars, shotVars, cliVars>>

\* processURL: profile := chooseProfile(urlStr, ...), then the call of
\* openInChrome with the same urlStr
OpenChoose ==
    /\ rPc = "choose"
    /\ rProfile' = IF rBuild = "listener" THEN chooseProfile(rUrl, rLoaded.cfg)
                   ELSE chooseProfileOr(rUrl, rLoaded.cfg.compiledRules,
                                        rLoaded.cfg.DefaultProfileDirectory)
    /\ rUrlStr' = rUrl
    /\ rPc' = "parse"
    /\ UNCHANGED <<rRaw, rUrl, rLoaded, rBuild, rArgs,
                   listenerVars, guardVars, logVars, shotVars, cliVars>>

\* openInChrome: url.Parse and the prefix
OpenNormalize ==
    /\ rPc = "parse"
    /\ rUrlStr' = Normalize(rUrlStr)
    /\ rPc' = "args"
    /\ UNCHANGED <<rRaw, rUrl, rLoaded, rProfile, rBuild, rArgs,
                   listenerVars, guardVars, logVars, shotVars, cliVars>>

\* openInChrome: args and exec.Command("open", args...)
OpenExec ==
    /\ rPc = "args"
    /\ rArgs' = IF rBuild = "listener"
                THEN openArgs(rLoaded.cfg.ChromeAppPath, rProfile, rUrlStr)
                ELSE openArgsAlways(rLoaded.cfg.ChromeAppPath, rProfile, rUrlStr)
    /\ rPc' = "run"
    /\ UNCHANGED <<rRaw, rUrl, rLoaded, rProfile, rBuild, rUrlStr,
                   listenerVars, guardVars, logVars, shotVars, cliVars>>

OpenNext == OpenLoad \/ OpenChoose \/ OpenNormalize \/ OpenExec

-----------------------------------------------------------------------------
(* Specifications *)

InitRoute == RouteInit /\ ListenerIdle /\ GuardIdle /\ LogIdle /\ ShotIdle /\ CliIdle
SpecRoute == InitRoute /\ [][RouteNext]_vars

InitListener == ListenerInit /\ LogIdle /\ RouteIdle /\ GuardIdle /\ ShotIdle /\ CliIdle
SpecListener == InitListener /\ [][ListenerNext]_vars

InitGuard == GuardInit /\ RouteIdle /\ ListenerIdle /\ LogIdle /\ ShotIdle /\ CliIdle
SpecGuard == InitGuard /\ [][GuardNext]_vars

InitOneShot == ShotInit /\ RouteIdle /\ GuardIdle /\ CliIdle
SpecOneShot == InitOneShot /\ [][ShotNext]_vars

InitOpen == OpenInit /\ ListenerIdle /\ GuardIdle /\ LogIdle /\ ShotIdle /\ CliIdle
SpecOpen == InitOpen /\ [][OpenNext]_vars

InitCli == CliInit /\ ShotIdle /\ RouteIdle /\ GuardIdle
SpecCli == InitCli /\ [][CliNext]_vars

\* the Go scheduler runs every runnable goroutine, time passes, and the
\* external `open` process returns; no URL need ever arrive
SpecOneShotFair == SpecOneShot /\ WF_vars(ShotStep)

-----------------------------------------------------------------------------
(* Properties *)

\* the rules of the configuration file whose pattern matches the URL
MatchingRules(rules, u) ==
    { i \in 1..Len(rules) :
        /\ Compile(rules[i].Pattern).ok
        /\ MatchString(Compile(rules[i].Pattern).re, u) }

\* the rules loadConfig must reject
BadRules(rules) ==
    { i \in 1..Len(rules) :
        \/ rules[i].Pattern = <<>>
        \/ rules[i].ProfileDirectory = ""
        \/ ~Compile(rules[i].Pattern).ok }

Listening == { p \in Procs : pc[p] = "listening" }

LaunchedUrls == [i \in 1..Len(launchLog) |-> launchLog[i].url]

\* C1: at most one live process is in the listener state at any time, under
\* either policy (pid file or exclusive lock file) and any interleaving of
\* processes starting and exiting.
C1_MutualExclusion == Cardinality(Listening) <= 1

\* C2: the routing decision is the profile of the first rule, in source
\* order, whose pattern matches the URL, also when a later rule matches too.
C2_FirstMatchWins ==
    rPc = "done" =>
        LET M == MatchingRules(rRaw.json.Rules, rUrl) IN
        M # {} => rProfile = rRaw.json.Rules[Min(M)].ProfileDirectory

C2_Witness ==
    /\ rPc = "done"
    /\ LET rules == rRaw.json.Rules
           M == MatchingRules(rules, rUrl)
       IN  /\ Cardinality(M) >= 2
           /\ \E j \in M : rules[j].ProfileDirectory # rules[Min(M)].ProfileDirectory
           /\ rProfile = rules[Min(M)].ProfileDirectory

\* C3: for a URL that matches no rule, the decision is the configured default
\* profile ("Default" when the file names none) under use-default-profile,
\* and no profile (the empty string) under use-browser-default.
C3_UnmatchedFallback ==
    (rPc = "done" /\ MatchingRules(rRaw.json.Rules, rUrl) = {}) =>
        LET st == rRaw.json.StrategyForUnknownUrls
            d  == rRaw.json.DefaultProfileDirectory
        IN  /\ st = StrategyForUnknownUrlsUseDefaultProfile =>
                 rProfile = IF d = "" THEN DefaultProfileName ELSE d
            /\ st = StrategyForUnknownUrlsUseBrowserDefault => rProfile = ""

C3_Witness ==
    /\ rPc = "done"
    /\ Len(rRaw.json.Rules) >= 1
    /\ MatchingRules(rRaw.json.Rules, rUrl) = {}
    /\ rRaw.json.StrategyForUnknownUrls = StrategyForUnknownUrlsUseDefaultProfile
    /\ rRaw.json.DefaultProfileDirectory = "Home"
    /\ rProfile = "Home"

\* C4: a URL whose decision is none (no rule matches, strategy
\* use-browser-default) is never passed to openInChrome.
C4_NoLaunchWhenNone ==
    \A i \in 1..Len(launchLog) :
        ~ /\ MatchingRules(lRaw.json.Rules, launchLog[i].url) = {}
          /\ lRaw.json.StrategyForUnknownUrls = StrategyForUnknownUrlsUseBrowserDefault

\* C5: a process that attempts to acquire while a live listener holds the
\* identity file (and stays alive through the attempt) never gets past the
\* acquire step: it does not write the file and does not become a listener.
C5_SecondAcquireFails ==
    \A p \in Procs :
        pc[p] \in {"write", "writing", "listening", "returning"} => holderSeen[p] = 0

C5_Witness ==
    \E p \in Procs :
        /\ holderSeen[p] # 0
        /\ Holds(holderSeen[p])
        /\ pc[p] = "exited"
        /\ gExit[p] = 0

C7_Fifo ==
    /\ Len(launchLog) <= Len(handed)
    /\ LaunchedUrls = SubSeq(handed, 1, Len(launchLog))

C7_Witness ==
    /\ Len(launchLog) = 3
    /\ handed[1] # handed[2]
    /\ handed[2] # handed[3]
    /\ handed[1] # handed[3]
    /\ LaunchedUrls = SubSeq(handed, 1, 3)

\* C8: at most one openInChrome invocation is in progress at any time.
C8_SerializedLaunches == Len(inflight) <= 1

C8_Witness ==
    /\ Len(inflight) = 1
    /\ notifierPc = "send"
    /\ Len(handed) >= 2
    /\ inflight[1].url # chanVal

\* C9: a HandleURL callback is never left waiting while a launch is in
\* progress: it hands its URL over and returns whatever the worker is doing.
C9_NonBlockingHandoff == ~(notifierPc = "send" /\ inflight # <<>>)

\* C10: when a rule has an empty pattern, an empty profile directory or a
\* pattern that does not compile, loadConfig fails, its error names the
\* zero-based position of the first such rule, and no compiled rules result.
C10_InvalidRuleRejected ==
    (rPc # "load" /\ rRaw.file = "ok" /\ BadRules(rRaw.json.Rules) # {}) =>
        /\ rPc = "failed"
        /\ rLoaded.err.kind \in {"rule invalid", "compile regexp"}
        /\ rLoaded.err.index = Min(BadRules(rRaw.json.Rules)) - 1
        /\ rLoaded.cfg.compiledRules = <<>>

C10_Witness ==
    /\ rPc = "failed"
    /\ Len(rRaw.json.Rules) = 2
    /\ BadRules(rRaw.json.Rules) = {2}
    /\ rLoaded.err.index = 1


\* the one-shot timer's channel is ready
TimerFired == clock = TimeoutSeconds

\* C11: in the one-shot build a URL delivered before the timer fires is the
\* one URL the goroutine receives; exactly one launch is attempted, for that
\* URL, no later URL is received or launched, and the process exits with
\* status 0
C11_OneShotUrlCase ==
    /\ (handed # <<>> /\ ~TimerFired) =>
          \/ received = <<handed[1]>>
          \/ workerPc = "start" /\ notifierPc = "send" /\ chanVal = handed[1]
    /\ received # <<>> =>
          /\ received = <<handed[1]>>
          /\ workerPc # "timeout"
          /\ Len(launchLog) <= 1
          /\ launchLog # <<>> => launchLog[1].url = handed[1]
          /\ mainPc = "exited" => exitCode = 0 /\ Len(launchLog) = 1

\* the URL was launched and the process has exited while a second URL waited
C11_Witness ==
    /\ mainPc = "exited"
    /\ exitCode = 0
    /\ Len(handed) = 2
    /\ handed[1] # handed[2]
    /\ LaunchedUrls = <<handed[1]>>

\* C12: in the one-shot build, when the timer fires with no URL received, no
\* launch is attempted, then or later, and the process exits with status 1
C12_OneShotTimeoutCase ==
    (TimerFired /\ received = <<>>) =>
        /\ launchLog = <<>>
        /\ workerPc \in {"timeout", "dead"}
        /\ mainPc = "exited" => exitCode = 1

\* the timer fired first; a URL that came after it was not launched
C12_Witness ==
    /\ mainPc = "exited"
    /\ exitCode = 1
    /\ handed # <<>>
    /\ launchLog = <<>>

\* C13: a failed launch never yields exit status 0
C13_FailedLaunchNotZero ==
    ~(/\ mainPc = "exited"
      /\ exitCode = 0
      /\ \E i \in 1..Len(launchResults) : launchResults[i] = "error")


\* some launch of the listener has returned an error
SomeLaunchFailed == \E i \in 1..Len(launchResults) : launchResults[i] = "error"

\* C14: in the listener a launch error ends neither the worker nor the
\* process: the process never exits by itself after it, the worker stays in
\* its loop, and once the worker is back at the receive with no send
\* pending, every URL delivered, the later ones included, has been launched
C14_LaunchErrorNotFatal ==
    SomeLaunchFailed =>
        /\ mainPc \in {"run", "killed"}
        /\ exitCode = -1
        /\ mainPc = "run" => workerPc \in {"recv", "process", "open", "launching"}
        /\ (mainPc = "run" /\ workerPc = "recv" /\ notifierPc = "idle") =>
              LaunchedUrls = handed

\* the first launch failed, and a URL delivered after it was launched
C14_Witness ==
    /\ Len(launchResults) >= 2
    /\ launchResults[1] = "error"
    /\ launchResults[2] = "nil"
    /\ LaunchedUrls = handed
    /\ mainPc = "run"


\* C15: a process whose acquire step finds a live listener holding the
\* identity file exits in that very step with status 0: it has opened
\* nothing for writing, the file is left as it was, and it never becomes a
\* listener (no worker, no event loop, no URL)
C15_FailedAcquireExitsZero ==
    [][\A p \in Procs :
          ( /\ pc[p] \in {"probe", "acquire"}
            /\ pc'[p] \notin {pc[p], "killed"}
            /\ holderSeen'[p] # 0 )
          => /\ pc'[p] = "exited"
             /\ gExit'[p] = 0
             /\ ~alive'[p]
             /\ fd'[p] = 0
             /\ idFile' = idFile
      ]_vars

\* a process turned away by a listener that is still listening
C15_Witness ==
    \E p \in Procs :
        /\ pc[p] = "exited"
        /\ gExit[p] = 0
        /\ fd[p] = 0
        /\ holderSeen[p] # 0
        /\ alive[holderSeen[p]]
        /\ pc[holderSeen[p]] = "listening"
        /\ idFile.exists


\* C16: in the listener, whenever the worker has been started, the event
\* loop can deliver a URL, or a URL has been delivered or launched, the
\* configuration was loaded without error and main's config is the loaded
\* one with every rule compiled; every launch was routed against it
C16_ConfigBeforeUrls ==
    (workerPc # "off" \/ notifierPc # "off" \/ handed # <<>> \/ launchLog # <<>>) =>
        /\ loadConfig(lRaw).err = NoError
        /\ lCfg = loadConfig(lRaw).cfg
        /\ Len(lCfg.compiledRules) = Len(lRaw.json.Rules)
        /\ \A i \in 1..Len(launchLog) :
              launchLog[i].profileDir =
                  chooseProfile(launchLog[i].url, loadConfig(lRaw).cfg)

\* a URL was routed by a compiled rule of the configuration file
C16_Witness ==
    /\ lRaw.json.Rules # <<>>
    /\ launchLog # <<>>
    /\ launchLog[1].profileDir = lRaw.json.Rules[1].ProfileDirectory
    /\ lCfg.compiledRules # <<>>


\* the identity file exists and is p's own: the pid file holds p's pid, or
\* the lock file is the one p created
Owns(p) ==
    /\ idFile.exists
    /\ IF variant = "pid" THEN idFile.bytes = Itoa(Getpid(p))
       ELSE fd[p] # 0 /\ idFile.ino = fd[p]

\* C17: a process that has ended by an exit path of its own (main returning,
\* os.Exit, the application's terminate) has left no identity file of its
\* own behind
C17_ReleasedOnTermination ==
    \A p \in Procs : pc[p] \in {"exited", "terminated"} => ~Owns(p)


\* C19: in the listener every URL passed to HandleURL is received by the
\* worker once, in call order, and HandleURL does not return before its URL
\* is received; each received URL is passed to openInChrome once, and a
\* launch that returned an error is not repeated
C19_ExactlyOnce ==
    /\ Len(received) <= Len(handed)
    /\ received = SubSeq(handed, 1, Len(received))
    /\ mainPc = "run" =>
          Len(received) = Len(handed) - (IF notifierPc = "send" THEN 1 ELSE 0)
    /\ Len(launchLog) <= Len(received)
    /\ LaunchedUrls = SubSeq(received, 1, Len(launchLog))
    /\ Len(launchLog) >= Len(received) - 1
    /\ (mainPc = "run" /\ workerPc \in {"recv", "launching"}) =>
          Len(launchLog) = Len(received)
    /\ Len(launchResults) <= Len(launchLog)
    /\ Len(launchResults) >= Len(launchLog) - 1

\* the same URL delivered twice was launched twice, the first launch failing
C19_Witness ==
    /\ Len(handed) = 2
    /\ handed[1] = handed[2]
    /\ launchResults = <<"error", "nil">>
    /\ LaunchedUrls = handed
    /\ workerPc = "recv"


\* C20: a one-shot run whose configuration loads always ends, with status 0
\* or 1, provided the goroutine is scheduled, time passes and the launch
\* returns, however many URLs are delivered
C20_OneShotTerminates ==
    (loadConfigBasic(lRaw).err = NoError) =>
        <>(mainPc = "exited" /\ exitCode \in {0, 1})

\* a run to which no URL was ever delivered has ended
C20_Witness ==
    /\ mainPc = "exited"
    /\ handed = <<>>
    /\ clock = TimeoutSeconds
    /\ exitCode = 1


\* the arguments the command-line build treats as URLs, in order
LikelyArgs == SelectSeq(cliArgs, isLikelyURL)

\* C18: with -dry-run the command-line build never calls openInChrome, so
\* no launch fails and the exit status is never 3; the decisions printed
\* are those of the arguments taken as URLs, in order, and all of them
\* once the loop is over
C18_DryRunNeverLaunches ==
    cliFlags.dryRun =>
        /\ launchLog = <<>>
        /\ launchResults = <<>>
        /\ ~firstErr
        /\ exitCode # 3
        /\ mainPc # "launching"
        /\ Len(printed) <= Len(LikelyArgs)
        /\ \A i \in 1..Len(printed) :
              printed[i] =
                  Launch(chooseProfileOr(TrimSpace(LikelyArgs[i]), lCfg.compiledRules,
                                         lCfg.config.DefaultProfileDirectory),
                         TrimSpace(LikelyArgs[i]))
        /\ (mainPc = "exited" /\ exitCode = 0 /\ ~cliFlags.version) =>
              Len(printed) = Len(LikelyArgs)

\* a dry run over two URLs has printed both decisions and ended with 0
C18_Witness ==
    /\ cliFlags.dryRun
    /\ mainPc = "exited"
    /\ exitCode = 0
    /\ Len(cliArgs) = 2
    /\ Len(printed) = 2
    /\ printed[1].profileDir # printed[2].profileDir
    /\ launchLog = <<>>


\* C21: in the one-shot build, once the goroutine has received a URL the
\* timer has no effect: when it fires the goroutine goes on with the URL,
\* the process exits only after the launch has returned, and never with
\* status 1
C21_TimeoutOnlyCancelsWaiting ==
    received # <<>> =>
        /\ exitCode # 1
        /\ mainPc = "run" => workerPc \in {"process", "open", "launching", "processed"}
        /\ mainPc = "exited" =>
              /\ exitCode = 0
              /\ Len(launchLog) = 1
              /\ Len(launchResults) = 1

\* the timer has fired and the launch is still in flight
C21_Witness ==
    /\ TimerFired
    /\ received # <<>>
    /\ mainPc = "run"
    /\ workerPc = "launching"
    /\ Len(inflight) = 1


\* C22: a listener whose configuration file cannot be opened or parsed, or
\* holds an invalid rule, gets no further than loadConfig: it exits with
\* status 2 before isRunning and before the pid file is written, the worker
\* is never started and no URL is delivered or launched
C22_ConfigErrorFatal ==
    loadConfig(lRaw).err # NoError =>
        /\ mainPc \in {"loadConfig", "exited"}
        /\ mainPc = "exited" => exitCode = 2
        /\ mainPc = "loadConfig" => exitCode = -1
        /\ workerPc = "off"
        /\ notifierPc = "off"
        /\ handed = <<>>
        /\ received = <<>>
        /\ launchLog = <<>>

\* a readable file with a rule whose pattern does not compile ended the
\* process with status 2
C22_Witness ==
    /\ lRaw.file = "ok"
    /\ loadConfig(lRaw).err.kind = "compile regexp"
    /\ mainPc = "exited"
    /\ exitCode = 2


\* the positions of the --profile-directory argument in the argument list
ProfileArgAt == { i \in 1..Len(rArgs) : rArgs[i].kind = "--profile-directory=" }

\* C23: `open` is given -na, the application path and --args; a
\* --profile-directory argument, carrying the chosen profile, is in the
\* list exactly when the chosen profile is not empty; the URL is the last
\* argument and the only URL
C23_LauncherArguments ==
    rPc = "run" =>
        /\ Len(rArgs) = (IF rProfile = "" THEN 4 ELSE 5)
        /\ rArgs[1] = FlagArg("-na")
        /\ rArgs[2] = PathArg(rLoaded.cfg.ChromeAppPath)
        /\ rLoaded.cfg.ChromeAppPath # ""
        /\ rArgs[3] = FlagArg("--args")
        /\ (ProfileArgAt # {}) <=> (rProfile # "")
        /\ \A i \in ProfileArgAt : i = 4 /\ rArgs[i] = ProfileArg(rProfile)
        /\ rArgs[Len(rArgs)] = UrlArg(rUrlStr)
        /\ \A i \in 1..Len(rArgs) : rArgs[i].kind = "url" => i = Len(rArgs)

\* the listener launched a URL with no profile chosen: four arguments
C23_Witness ==
    /\ rPc = "run"
    /\ rBuild = "listener"
    /\ rProfile = ""
    /\ ProfileArgAt = {}
    /\ Len(rArgs) = 4
    /\ rArgs[4].kind = "url"

\* the profile processURL's build chooses for a URL text
ChosenFor(u) ==
    IF rBuild = "listener" THEN chooseProfile(u, rLoaded.cfg)
    ELSE chooseProfileOr(u, rLoaded.cfg.compiledRules,
                         rLoaded.cfg.DefaultProfileDirectory)

\* C24: the URL openInChrome hands over is the received one with http://
\* put before it exactly when url.Parse succeeds with an empty scheme and
\* the text does not start with http; with a scheme, with a leading http,
\* or when the parse fails, it is the received one unchanged; the profile
\* was chosen on the received URL
C24_Normalization ==
    rPc \in {"args", "run"} =>
        LET u == UrlParse(rUrl) IN
        /\ (u.ok /\ u.scheme = <<>> /\ ~HasPrefix(rUrl, HttpText))
              => rUrlStr = HttpPrefix \o rUrl
        /\ ~u.ok => rUrlStr = rUrl
        /\ (u.ok /\ u.scheme # <<>>) => rUrlStr = rUrl
        /\ HasPrefix(rUrl, HttpText) => rUrlStr = rUrl
        /\ rProfile = ChosenFor(rUrl)
        /\ rPc = "run" => rArgs[Len(rArgs)].chars = rUrlStr

\* a URL was prefixed, and the prefixed text would have been routed to
\* another profile than the received one was
C24_Witness ==
    /\ rPc = "run"
    /\ rUrlStr = HttpPrefix \o rUrl
    /\ ChosenFor(rUrlStr) # ChosenFor(rUrl)
    /\ rProfile = ChosenFor(rUrl)


\* C25: under the pid-file policy, while a process is past its acquire and
\* has not released (it listens, or its main is returning), the pid file
\* exists and holds that process's pid
C25_HolderRecorded ==
    variant = "pid" =>
        \A p \in Procs :
            pc[p] \in {"listening", "returning"} =>
                idFile.exists /\ idFile.bytes = Itoa(Getpid(p))


\* C26: the steps of an acquire attempt that fails (reading the pid file
\* and finding a pid in it, probing that pid and exiting, or failing to
\* create the lock file and exiting) leave the identity file as it was,
\* the process has opened nothing for writing, and a listener that held
\* the file before the step holds it after
C26_FailedAcquireFrame ==
    [][\A p \in Procs :
          ( \/ pc[p] = "isRunning" /\ pc'[p] = "probe"
            \/ pc[p] \in {"probe", "acquire"} /\ pc'[p] = "exited" )
          => /\ idFile' = idFile
             /\ fd'[p] = 0
             /\ \A q \in Procs : Holds(q) => Holds(q)'
      ]_vars

\* under the lock-file policy a process was turned away and the listener
\* still holds the lock file it created
C26_Witness ==
    \E p, q \in Procs :
        /\ variant = "lock"
        /\ pc[p] = "exited"
        /\ gExit[p] = 0
        /\ fd[p] = 0
        /\ Holds(q)
        /\ holderSeen[p] = q


C28_EmptyMeansNone ==
    rPc \in {"choose", "done"} =>
        /\ rLoaded.cfg.DefaultProfileDirectory # ""
        /\ \A i \in 1..Len(rLoaded.cfg.compiledRules) :
              rLoaded.cfg.compiledRules[i].profileDirectory # ""
        /\ rPc = "done" =>
              ( rProfile = "" <=>
                  /\ MatchingRules(rRaw.json.Rules, rUrl) = {}
                  /\ rLoaded.cfg.StrategyForUnknownUrls #
                        StrategyForUnknownUrlsUseDefaultProfile )

\* the file names no default profile, and the unmatched URL got "Default"
C28_Witness ==
    /\ rPc = "done"
    /\ rRaw.json.DefaultProfileDirectory = ""
    /\ rRaw.json.StrategyForUnknownUrls = StrategyForUnknownUrlsUseDefaultProfile
    /\ MatchingRules(rRaw.json.Rules, rUrl) = {}
    /\ rProfile = DefaultProfileName

=============================================================================
